---- MODULE Spec2Model ----
(***************************************************************************)
(* The pledge submission mutation of the crowdfunding backend               *)
(* (src/unnamed/part_000) as a state machine over the relational store.     *)
(* Every submission is a process that walks the handler from               *)
(* transactionBegin to its return; the steps are the handler's store        *)
(* operations (its awaits).  Writes go to the transaction's write set and   *)
(* reach the store at transactionCommit only.                               *)
(* Spec serves requests one at a time, SpecConc lets two submissions race,  *)
(* and SpecDraft is the draftPledge query of src/graphql/resolvers.js.      *)
(***************************************************************************)
EXTENDS Integers, Sequences, FiniteSets, TLC

(* ------------------------------ bounds --------------------------------- *)

\* longest options list of a request
MaxOptions == 2
\* largest amount of one option
MaxAmount == 2
\* Pledge rows the store may hold before no further submission begins
MaxPledges == 2
\* request handlers (processes)
NumProcs == 2

(* --------------------------- program constants ------------------------- *)

\* Math.max(..., 100): the floor of minTotal and regularTotal
MinTotalFloor == 100

(* ------------------------------ values --------------------------------- *)

Procs == 1..NumProcs
\* the handlers that run under Spec: requests served one at a time
Sequential == {1}

Null == "null"
NoId == 0

\* the translator t(key): an opaque function of the key
t(key) == [translated |-> key]
JsError(msg) == [type |-> "Error", message |-> msg]
ReferenceError(name) == [type |-> "ReferenceError", message |-> [notDefined |-> name]]
TypeError(prop) == [type |-> "TypeError", message |-> [ofUndefined |-> prop]]
StoreError(op) == [type |-> "StoreError", message |-> [operation |-> op]]
SignatureError == [type |-> "SignatureError", message |-> [operation |-> "postfinanceSHA"]]
NoError == [type |-> "none", message |-> [none |-> TRUE]]

(* ------------------------------ catalog -------------------------------- *)

\* rows of table packageOptions (read-only during a submission)
PackageOptionRows ==
  { [id |-> 1, packageId |-> 1, minAmount |-> 1, maxAmount |-> 1, price |-> 200,
     userPrice |-> TRUE, minUserPrice |-> 100, rewardId |-> 1],
    [id |-> 2, packageId |-> 1, minAmount |-> 2, maxAmount |-> 2, price |-> 50,
     userPrice |-> FALSE, minUserPrice |-> 0, rewardId |-> NoId],
    [id |-> 3, packageId |-> 2, minAmount |-> 1, maxAmount |-> 1, price |-> 100,
     userPrice |-> FALSE, minUserPrice |-> 0, rewardId |-> 2] }

\* rows of table rewards; reward 2 was retired (no row)
RewardRows == { [id |-> 1] }

\* template ids a request may name; the last one is not in the catalog
TemplateIds == {1, 2, 3, 4}

(* --------------------------- request inputs ---------------------------- *)

Amounts == 1..MaxAmount
Prices == {100}
Totals == {50, 100, 200, 300}
Reasons == {Null, "", "student"}
Emails == {"seed@r", "new@r"}
FirstNames == {"Ann"}
LastNames == {"Lee"}
Birthdays == {"1990"}

PledgeOptionInputs == [templateId : TemplateIds, amount : Amounts, price : Prices]
OptionLists == UNION { [1..n -> PledgeOptionInputs] : n \in 0..MaxOptions }
ContactInputs ==
  [email : Emails, firstName : FirstNames, lastName : LastNames, birthday : Birthdays]
PledgeInputs ==
  [total : Totals, reason : Reasons, user : ContactInputs, options : OptionLists]

\* the requests of the concurrent runs: one unit of template 1 at the reduced
\* total 100, or one unit of template 3 at its regular total 100
ConcurrentInputs ==
  [total : {100}, reason : {"student"}, user : ContactInputs,
   options : { << [templateId |-> id, amount |-> 1, price |-> 100] >> : id \in {1, 3} }]

NoUser == [id |-> NoId, email |-> Null, firstName |-> Null, lastName |-> Null,
           birthday |-> Null, verified |-> FALSE]
NoPledge == [id |-> NoId, userId |-> NoId, packageId |-> NoId, total |-> 0,
             donation |-> 0, reason |-> Null, status |-> "NONE"]
NoRequest == [pledge |-> [total |-> 0, reason |-> Null, user |-> NoUser, options |-> << >>],
              user |-> NoUser, id |-> NoId]

(* ---------------------- pricing validation (pure) ---------------------- *)

Max(a, b) == IF a >= b THEN a ELSE b

\* pledgeOptions.map(plo => plo.templateId)
TemplateIdsOf(plos) == { plos[i].templateId : i \in 1..Len(plos) }

\* packageOptions.find({id: [...]}): the catalog rows with one of the ids
FindPackageOptions(ids) == { pko \in PackageOptionRows : pko.id \in ids }

\* packageOptions.find(pko => pko.id === plo.templateId)
Pko(plo) == CHOOSE pko \in PackageOptionRows : pko.id = plo.templateId

\* line 17: fewer rows found than options submitted
TemplatesMissing(plos) == Cardinality(FindPackageOptions(TemplateIdsOf(plos))) < Len(plos)

\* the package check comparing the option's package with itself
OtherPackageNever(packageId, plo) == Pko(plo).packageId # Pko(plo).packageId

\* line 30
OtherPackage(packageId, plo) == packageId # Pko(plo).packageId

\* line 34: JavaScript evaluates a <= b <= c as (a <= b) <= c, the first
\* comparison's boolean converted to 1 or 0
AmountAccepted(pko, amount) ==
  (IF pko.minAmount <= amount THEN 1 ELSE 0) <= pko.maxAmount

RECURSIVE SumMin(_)
SumMin(plos) ==
  IF plos = << >> THEN 0
  ELSE LET plo == Head(plos)
           pko == Pko(plo)
       IN  (IF pko.userPrice THEN pko.minUserPrice * plo.amount
                             ELSE pko.price * plo.amount) + SumMin(Tail(plos))

RECURSIVE SumRegular(_)
SumRegular(plos) ==
  IF plos = << >> THEN 0
  ELSE LET plo == Head(plos)
       IN  Pko(plo).price * plo.amount + SumRegular(Tail(plos))

\* minTotal without the floor of 100
MinTotalNoFloor(plos) == SumMin(plos)

\* lines 41-49
MinTotal(plos) == Max(SumMin(plos), MinTotalFloor)
\* lines 57-63
RegularTotal(plos) == Max(SumRegular(plos), MinTotalFloor)
\* line 65
Donation(pledge) == pledge.total - RegularTotal(pledge.options)

\* the reason check testing for an absent reason only
ReasonMissingNullOnly(pledge) == pledge.reason = Null

\* !pledge.reason: absent and empty are both falsy
ReasonMissing(pledge) == pledge.reason \in {Null, ""}

\* line 52: the log message's template literal reads the variable total, which
\* no scope defines, so evaluating it throws before the Error is constructed
TotalBelowMinimumError == ReferenceError("total")

\* lines 12-70: what the checks do with a request, for each row the find may
\* return first (packageOptions[0]; the store fixes no order): the error
\* thrown (NoError: none) and the packageId kept
ValidationOutcomes(pledge) ==
  LET plos == pledge.options
      found == FindPackageOptions(TemplateIdsOf(plos))
      Checked(packageId) ==
        IF \E i \in 1..Len(plos) :
             OtherPackage(packageId, plos[i])
               \/ ~AmountAccepted(Pko(plos[i]), plos[i].amount)
        THEN JsError(t("api/unexpected"))
        ELSE IF pledge.total < MinTotal(plos) THEN TotalBelowMinimumError
        ELSE IF Donation(pledge) < 0 /\ ReasonMissing(pledge)
             THEN JsError(t("api/unexpected"))
        ELSE NoError
  IN  IF TemplatesMissing(plos)
      THEN { [error |-> JsError(t("api/unexpected")), packageId |-> NoId] }
      ELSE IF found = {}
      THEN { [error |-> TypeError("packageId"), packageId |-> NoId] }
      ELSE { [error |-> Checked(first.packageId), packageId |-> first.packageId] :
               first \in found }

(* ------------------------------- state --------------------------------- *)

VARIABLES
  users,           \* table users (committed rows)
  pledges,         \* table pledges (committed rows)
  pledgeOptions,   \* table pledgeOptions (committed rows)
  paymentSources,  \* table paymentSources (committed rows)
  pc,              \* each handler's position
  req,             \* each handler's args.pledge and req.user
  tx,              \* each handler's transaction: status and write set
  local,           \* each handler's packageId, donation, user, pfAliasId, newPledge
  out,             \* what each handler threw or returned
  before           \* the store as it was when the handler began (history)

vars == << users, pledges, pledgeOptions, paymentSources, pc, req, tx, local, out, before >>

NoTx == [status |-> "none", users |-> {}, pledges |-> {}, pledgeOptions |-> {}]
NoLocal == [packageId |-> NoId, donation |-> 0, user |-> NoUser, pfAliasId |-> NoId,
            newPledge |-> NoPledge]
NoSHA == [orderId |-> NoId, amount |-> 0, alias |-> NoId, userId |-> NoId]
NoOut == [kind |-> "none", error |-> NoError, pledgeId |-> NoId, userId |-> NoId,
          pfSHA |-> NoSHA, pfAliasId |-> NoId]
Store == [users |-> users, pledges |-> pledges, pledgeOptions |-> pledgeOptions,
          paymentSources |-> paymentSources]

\* src/seeds/0_users_roles.js: one user, inserted with an email only; a row
\* inserted without the verified column is not verified
SeedUser == [id |-> 1, email |-> "seed@r", firstName |-> Null, lastName |-> Null,
             birthday |-> Null, verified |-> FALSE]

Init ==
  /\ users = { SeedUser }
  /\ pledges = {}
  /\ pledgeOptions = {}
  /\ paymentSources = { [userId |-> 1, method |-> "POSTFINANCECARD", pspId |-> 1] }
  /\ pc = [p \in Procs |-> "idle"]
  /\ req = [p \in Procs |-> NoRequest]
  /\ tx = [p \in Procs |-> NoTx]
  /\ local = [p \in Procs |-> NoLocal]
  /\ out = [p \in Procs |-> NoOut]
  /\ before = [p \in Procs |-> [users |-> {}, pledges |-> {}, pledgeOptions |-> {},
                                paymentSources |-> {}]]

(* ------------------------ the store, seen from p ----------------------- *)

\* rows of a table as transaction p reads them: the committed rows, with p's own
\* writes in place of the rows they replace
VisibleUsers(p) ==
  { u \in users : \A w \in tx[p].users : w.id # u.id } \cup tx[p].users
VisiblePledges(p) == pledges \cup tx[p].pledges
VisiblePledgeOptions(p) == pledgeOptions \cup tx[p].pledgeOptions

SetMax(S) == IF S = {} THEN 0 ELSE CHOOSE m \in S : \A x \in S : x <= m

\* the id the store gives the next inserted row: above every id in use, in the
\* table or in an open transaction
NextUserId ==
  1 + SetMax({ u.id : u \in users \cup UNION { tx[q].users : q \in Procs } })
\* a pledge id sequence that does not see the committed rows
NextPledgeIdRestarted ==
  1 + SetMax({ g.id : g \in UNION { tx[q].pledges : q \in Procs } })
NextPledgeId ==
  1 + SetMax({ g.id : g \in pledges \cup UNION { tx[q].pledges : q \in Procs } })

\* uuid(): an identifier no payment source and no running handler holds
Uuid ==
  1 + SetMax({ s.pspId : s \in paymentSources } \cup { local[q].pfAliasId : q \in Procs })

\* pledges.count with a criterion no row matches
CountPledgesNone(p, userId) == Cardinality({ g \in VisiblePledges(p) : g.userId = NoId })

\* pledges.count({userId})
CountPledges(p, userId) == Cardinality({ g \in VisiblePledges(p) : g.userId = userId })

\* the reward ids of the templates taken as rewards, without the rewards' find
RewardsOfUnchecked(pledgeRows, optionRows, userId) ==
  LET mine == { g \in pledgeRows : g.userId = userId }
      plos == { o \in optionRows : o.pledgeId \in { g.id : g \in mine } }
      pkos == FindPackageOptions({ o.templateId : o \in plos })
  IN  { [id |-> pko.rewardId] : pko \in pkos }

\* lines 114-117: the rewards reachable from the user's pledges through their
\* options and the options' templates
RewardsOf(pledgeRows, optionRows, userId) ==
  LET mine == { g \in pledgeRows : g.userId = userId }
      plos == { o \in optionRows : o.pledgeId \in { g.id : g \in mine } }
      pkos == FindPackageOptions({ o.templateId : o \in plos })
  IN  { r \in RewardRows : r.id \in { pko.rewardId : pko \in pkos } }

\* postfinanceSHA(...): an opaque function of the order data
PostfinanceSHA(order) == order

(* ------------------------------ the steps ------------------------------ *)

\* a throw inside the try block: control goes to the catch clause with e
Throw(p, e) ==
  /\ pc' = [pc EXCEPT ![p] = "catch"]
  /\ out' = [out EXCEPT ![p] = [NoOut EXCEPT !.kind = "thrown", !.error = e]]

\* a store operation that rejects (connection lost, constraint, timeout)
StoreFails(p, op) ==
  /\ Throw(p, StoreError(op))
  /\ UNCHANGED << users, pledges, pledgeOptions, paymentSources, req, tx, local, before >>

\* lines 5-70: transactionBegin, the templates' find and the pricing checks,
\* which read the request and the catalog only
BeginWith(p, inputs, sessions) ==
  /\ pc[p] = "idle"
  /\ Cardinality(pledges) < MaxPledges
  /\ \E pledge \in inputs, session \in sessions :
       \E o \in ValidationOutcomes(pledge) :
         /\ req' = [req EXCEPT ![p] = [pledge |-> pledge, user |-> session,
                                             id |-> NoId]]
         /\ tx' = [tx EXCEPT ![p] = [NoTx EXCEPT !.status = "open"]]
         /\ before' = [before EXCEPT ![p] = Store]
         /\ IF o.error = NoError
            THEN /\ pc' = [pc EXCEPT ![p] = "resolveUser"]
                 /\ local' = [local EXCEPT ![p] = [NoLocal EXCEPT
                                 !.packageId = o.packageId,
                                 !.donation = Donation(pledge)]]
                 /\ out' = [out EXCEPT ![p] = NoOut]
            ELSE /\ Throw(p, o.error)
                 /\ local' = [local EXCEPT ![p] = NoLocal]
  /\ UNCHANGED << users, pledges, pledgeOptions, paymentSources >>

\* req.user: no session, or the session of any user
AnySession == { NoUser } \cup users

\* a submission of any request of the input space
BeginValidate(p) == BeginWith(p, PledgeInputs, AnySession)

\* a submission of one of the requests that the concurrent runs are made of
BeginConcurrent(p) == BeginWith(p, ConcurrentInputs, AnySession)

\* line 90: return {emailVerify: true} from inside the try block: neither
\* transactionCommit nor transactionRollback is called
EmailVerifyReturn(p) ==
  /\ pc' = [pc EXCEPT ![p] = "done"]
  /\ out' = [out EXCEPT ![p] = [NoOut EXCEPT !.kind = "emailVerify"]]
  /\ UNCHANGED << users, pledges, pledgeOptions, paymentSources, req, tx, local, before >>

\* the alias lookup without the userId criterion
FindAliasOfAnyUser(userId) ==
  LET found == { s \in paymentSources : s.method = "POSTFINANCECARD" }
  IN  IF found = {} THEN { NoId } ELSE { s.pspId : s \in found }

\* lines 83-86: paymentSources.findOneFieldOnly({userId, method}, 'pspId')
FindAlias(userId) ==
  LET found == { s \in paymentSources :
                   s.userId = userId /\ s.method = "POSTFINANCECARD" }
  IN  IF found = {} THEN { NoId } ELSE { s.pspId : s \in found }

\* an identity check that compares the session's email with itself
IdentityMismatchIgnored(p) == req[p].user.email # req[p].user.email

\* line 76: req.user.email !== pledge.user.email
IdentityMismatch(p) == req[p].user.email # req[p].pledge.user.email

\* lines 75-90: the acting user from the session, or by the submitted email
ResolveUser(p) ==
  /\ pc[p] = "resolveUser"
  /\ LET email == req[p].pledge.user.email
         byEmail == { u \in VisibleUsers(p) : u.email = email }
     IN
     IF req[p].user # NoUser
     THEN IF IdentityMismatch(p)
          THEN /\ Throw(p, JsError(t("api/unexpected")))
               /\ UNCHANGED << users, pledges, pledgeOptions, paymentSources, req, tx,
                               local, before >>
          ELSE /\ \E alias \in FindAlias(req[p].user.id) :
                    local' = [local EXCEPT ![p].user = req[p].user,
                                           ![p].pfAliasId = alias]
               /\ pc' = [pc EXCEPT ![p] = "syncUser"]
               /\ UNCHANGED << users, pledges, pledgeOptions, paymentSources, req, tx,
                               out, before >>
     ELSE IF byEmail = {}
          THEN /\ pc' = [pc EXCEPT ![p] = "createUser"]
               /\ UNCHANGED << users, pledges, pledgeOptions, paymentSources, req, tx,
                               local, out, before >>
          ELSE \E user \in byEmail :
                 IF CountPledges(p, user.id) > 0
                 THEN EmailVerifyReturn(p)
                 ELSE /\ local' = [local EXCEPT ![p].user = user]
                      /\ pc' = [pc EXCEPT ![p] = "syncUser"]
                      /\ UNCHANGED << users, pledges, pledgeOptions, paymentSources, req,
                                      tx, out, before >>

\* lines 91-98: users.insertAndGet
CreateUser(p) ==
  /\ pc[p] = "createUser"
  /\ \/ LET row == [id |-> NextUserId,
                    email |-> req[p].pledge.user.email,
                    firstName |-> req[p].pledge.user.firstName,
                    lastName |-> req[p].pledge.user.lastName,
                    birthday |-> req[p].pledge.user.birthday,
                    verified |-> FALSE]
        IN  /\ tx' = [tx EXCEPT ![p].users = @ \cup { row }]
            /\ local' = [local EXCEPT ![p].user = row]
            /\ pc' = [pc EXCEPT ![p] = "syncUser"]
            /\ UNCHANGED << users, pledges, pledgeOptions, paymentSources, req, out, before >>
     \/ StoreFails(p, "users.insertAndGet")

\* the store's row lock: another open transaction has updated the row and has
\* not ended, so an update of the row waits
RowLockedByOther(p, id) ==
  \E q \in Procs \ { p } :
    tx[q].status = "open" /\ \E w \in tx[q].users : w.id = id

\* lines 100-110: users.updateAndGetOne when a name differs, then the alias
SyncUser(p) ==
  /\ pc[p] = "syncUser"
  /\ LET user == local[p].user
         contact == req[p].pledge.user
         alias == IF local[p].pfAliasId = NoId THEN Uuid ELSE local[p].pfAliasId
     IN
     IF user.firstName # contact.firstName \/ user.lastName # contact.lastName
     THEN /\ ~RowLockedByOther(p, user.id)
          /\ \/ \E row \in { u \in VisibleUsers(p) : u.id = user.id } :
                  LET updated == [row EXCEPT !.firstName = contact.firstName,
                                             !.lastName = contact.lastName]
                  IN  /\ tx' = [tx EXCEPT ![p].users =
                                  { w \in @ : w.id # user.id } \cup { updated }]
                      /\ local' = [local EXCEPT ![p].user = updated,
                                                ![p].pfAliasId = alias]
                      /\ pc' = [pc EXCEPT ![p] = "guard"]
                      /\ UNCHANGED << users, pledges, pledgeOptions, paymentSources, req,
                                      out, before >>
             \/ StoreFails(p, "users.updateAndGetOne")
     ELSE /\ local' = [local EXCEPT ![p].pfAliasId = alias]
          /\ pc' = [pc EXCEPT ![p] = "guard"]
          /\ UNCHANGED << users, pledges, pledgeOptions, paymentSources, req, tx, out, before >>

\* the guard asking for more than one reward
ReducedAlreadyUsedOffByOne(p) ==
  /\ local[p].donation < 0
  /\ CountPledges(p, local[p].user.id) > 0
  /\ Cardinality(RewardsOf(VisiblePledges(p), VisiblePledgeOptions(p),
                           local[p].user.id)) > 1

\* lines 113-118: donation < 0, the user has a pledge, and rewards.length
ReducedAlreadyUsed(p) ==
  /\ local[p].donation < 0
  /\ CountPledges(p, local[p].user.id) > 0
  /\ Cardinality(RewardsOf(VisiblePledges(p), VisiblePledgeOptions(p),
                           local[p].user.id)) > 0

\* lines 112-122: a reduced pledge is refused to a user whose pledges reach a
\* reward.  The five reads are one step: pledges and their options only grow
\* and commit together, so the reads see what the last of them sees.
Guard(p) ==
  /\ pc[p] = "guard"
  /\ \/ IF ReducedAlreadyUsed(p)
        THEN /\ Throw(p, JsError(t("api/membership/reduced/alreadyHas")))
             /\ UNCHANGED << users, pledges, pledgeOptions, paymentSources, req, tx, local,
                             before >>
        ELSE /\ pc' = [pc EXCEPT ![p] = "insertPledge"]
             /\ UNCHANGED << users, pledges, pledgeOptions, paymentSources, req, tx, local,
                             out, before >>
     \/ /\ local[p].donation < 0
        /\ StoreFails(p, "pledges.count")

\* the Pledge row given the first option's template id as its package
NewPledgeOfTemplate(p) ==
  [id |-> NextPledgeId,
   userId |-> local[p].user.id,
   packageId |-> req[p].pledge.options[1].templateId,
   total |-> req[p].pledge.total,
   donation |-> local[p].donation,
   reason |-> req[p].pledge.reason,
   status |-> "DRAFT"]

\* lines 124-133: pledges.insertAndGet
NewPledge(p) ==
  [id |-> NextPledgeId,
   userId |-> local[p].user.id,
   packageId |-> local[p].packageId,
   total |-> req[p].pledge.total,
   donation |-> local[p].donation,
   reason |-> req[p].pledge.reason,
   status |-> "DRAFT"]

InsertPledge(p) ==
  /\ pc[p] = "insertPledge"
  /\ \/ /\ tx' = [tx EXCEPT ![p].pledges = @ \cup { NewPledge(p) }]
        /\ local' = [local EXCEPT ![p].newPledge = NewPledge(p)]
        /\ pc' = [pc EXCEPT ![p] = "insertOptions"]
        /\ UNCHANGED << users, pledges, pledgeOptions, paymentSources, req, out, before >>
     \/ StoreFails(p, "pledges.insertAndGet")

\* the options inserted without the new pledge's id
NewPledgeOptionsUnlinked(p) ==
  LET plos == req[p].pledge.options
  IN  { [pledgeId |-> NoId, templateId |-> plos[i].templateId,
         amount |-> plos[i].amount, price |-> plos[i].price] : i \in 1..Len(plos) }

\* lines 135-140: one pledgeOptions.insertAndGet per option, each option given
\* the new pledge's id
NewPledgeOptions(p) ==
  LET plos == req[p].pledge.options
  IN  { [pledgeId |-> local[p].newPledge.id, templateId |-> plos[i].templateId,
         amount |-> plos[i].amount, price |-> plos[i].price] : i \in 1..Len(plos) }

InsertOptions(p) ==
  /\ pc[p] = "insertOptions"
  /\ \/ /\ tx' = [tx EXCEPT ![p].pledgeOptions = @ \cup NewPledgeOptions(p)]
        /\ pc' = [pc EXCEPT ![p] = "commit"]
        /\ UNCHANGED << users, pledges, pledgeOptions, paymentSources, req, local, out,
                        before >>
     \/ StoreFails(p, "pledgeOptions.insertAndGet")

\* line 143: transactionCommit: the write set reaches the tables
Commit(p) ==
  /\ pc[p] = "commit"
  /\ \/ /\ users' = VisibleUsers(p)
        /\ pledges' = VisiblePledges(p)
        /\ pledgeOptions' = VisiblePledgeOptions(p)
        /\ tx' = [tx EXCEPT ![p] = [NoTx EXCEPT !.status = "committed"]]
        /\ pc' = [pc EXCEPT ![p] = "sign"]
        /\ UNCHANGED << paymentSources, req, local, out, before >>
     \/ StoreFails(p, "transactionCommit")

\* lines 145-158: the signature of the committed order, and the result; the
\* signature function is external and may throw
Sign(p) ==
  /\ pc[p] = "sign"
  /\ \/ /\ out' = [out EXCEPT ![p] =
             [kind |-> "result", error |-> NoError,
              pledgeId |-> local[p].newPledge.id,
              userId |-> local[p].user.id,
              pfSHA |-> PostfinanceSHA([orderId |-> local[p].newPledge.id,
                                        amount |-> local[p].newPledge.total,
                                        alias |-> local[p].pfAliasId,
                                        userId |-> local[p].user.id]),
              pfAliasId |-> local[p].pfAliasId]]
        /\ pc' = [pc EXCEPT ![p] = "done"]
     \/ Throw(p, SignatureError)
  /\ UNCHANGED << users, pledges, pledgeOptions, paymentSources, req, tx, local, before >>

\* line 160: transactionRollback: an open transaction's write set is
\* discarded; a committed transaction's rows stay
Rollback(txn) ==
  IF txn.status = "open" THEN [NoTx EXCEPT !.status = "rolledback"] ELSE txn

\* a rollback that lets the write set through
AfterRollbackLeaking(p) ==
  [Store EXCEPT !.users = VisibleUsers(p), !.pledges = VisiblePledges(p),
                !.pledgeOptions = VisiblePledgeOptions(p)]

\* the tables after p's transactionRollback: none of the write set reaches them
AfterRollback(p) == Store

\* a catch clause that throws the generic error whatever it caught
RethrownGeneric(e) == JsError(t("api/unexpected"))

\* line 162: throw e: the caller gets the error the try block threw
Rethrown(e) == e

\* lines 159-163: the catch clause rolls back and throws e again
Catch(p) ==
  /\ pc[p] = "catch"
  /\ tx' = [tx EXCEPT ![p] = Rollback(tx[p])]
  /\ users' = AfterRollback(p).users
  /\ pledges' = AfterRollback(p).pledges
  /\ pledgeOptions' = AfterRollback(p).pledgeOptions
  /\ out' = [out EXCEPT ![p].kind = "error", ![p].error = Rethrown(@)]
  /\ pc' = [pc EXCEPT ![p] = "done"]
  /\ UNCHANGED << paymentSources, req, local, before >>

\* the caller has the result or the error; the handler serves the next request
Return(p) ==
  /\ pc[p] = "done"
  /\ pc' = [pc EXCEPT ![p] = "idle"]
  /\ req' = [req EXCEPT ![p] = NoRequest]
  /\ tx' = [tx EXCEPT ![p] = NoTx]
  /\ local' = [local EXCEPT ![p] = NoLocal]
  /\ out' = [out EXCEPT ![p] = NoOut]
  /\ before' = [before EXCEPT ![p] = [users |-> {}, pledges |-> {}, pledgeOptions |-> {},
                                      paymentSources |-> {}]]
  /\ UNCHANGED << users, pledges, pledgeOptions, paymentSources >>

Next ==
  \E p \in Sequential :
    \/ BeginValidate(p)
    \/ ResolveUser(p)
    \/ CreateUser(p)
    \/ SyncUser(p)
    \/ Guard(p)
    \/ InsertPledge(p)
    \/ InsertOptions(p)
    \/ Commit(p)
    \/ Sign(p)
    \/ Catch(p)
    \/ Return(p)

Spec == Init /\ [][Next]_vars

\* the tables after the seeded user's first pledge, one unit of template 3 at
\* total 100 submitted without a session (a state Spec reaches)
StoreAfterFirstPledge ==
  [users |-> { [SeedUser EXCEPT !.firstName = "Ann", !.lastName = "Lee"] },
   pledges |-> { [id |-> 1, userId |-> 1, packageId |-> 2, total |-> 100,
                  donation |-> 0, reason |-> "student", status |-> "DRAFT"] },
   pledgeOptions |-> { [pledgeId |-> 1, templateId |-> 3, amount |-> 1, price |-> 100] },
   paymentSources |-> { [userId |-> 1, method |-> "POSTFINANCECARD", pspId |-> 1] }]

\* two submissions race, on the seeded store or on the store an earlier
\* submission left
InitConc ==
  /\ \E store \in { [users |-> { SeedUser }, pledges |-> {}, pledgeOptions |-> {},
                      paymentSources |-> StoreAfterFirstPledge.paymentSources],
                     StoreAfterFirstPledge } :
       /\ users = store.users
       /\ pledges = store.pledges
       /\ pledgeOptions = store.pledgeOptions
       /\ paymentSources = store.paymentSources
  /\ pc = [p \in Procs |-> "idle"]
  /\ req = [p \in Procs |-> NoRequest]
  /\ tx = [p \in Procs |-> NoTx]
  /\ local = [p \in Procs |-> NoLocal]
  /\ out = [p \in Procs |-> NoOut]
  /\ before = [p \in Procs |-> [users |-> {}, pledges |-> {}, pledgeOptions |-> {},
                                paymentSources |-> {}]]

\* concurrent submissions: each handler serves one request, every step of it
\* interleaved with the steps of the other
NextConc ==
  \E p \in Procs :
    \/ BeginConcurrent(p)
    \/ ResolveUser(p)
    \/ CreateUser(p)
    \/ SyncUser(p)
    \/ Guard(p)
    \/ InsertPledge(p)
    \/ InsertOptions(p)
    \/ Commit(p)
    \/ Sign(p)
    \/ Catch(p)

SpecConc == InitConc /\ [][NextConc]_vars

(* ------------------------- the draftPledge query ----------------------- *)

\* the statuses the query tells apart
PledgeStatuses == {"DRAFT", "SUCCESSFUL"}
\* a pledge id that no row has
MissingPledgeId == 3

\* src/graphql/resolvers.js lines 82-99, for the arguments' id and req.user
\* (NoUser: nobody is logged in, req.user is undefined).  Neither the file nor
\* the resolver's context argument {pgdb, req} defines t, so evaluating
\* t('api/...') throws a ReferenceError; pledge.status of no row and
\* req.user.id of no session throw a TypeError.  The operands of || are
\* evaluated left to right.
DraftPledgeOutcome(store, id, caller) ==
  LET found == { g \in store.pledges : g.id = id }
      pledge == CHOOSE g \in found : TRUE
      owner == CHOOSE u \in store.users : u.id = pledge.userId
      Raise(e) == [NoOut EXCEPT !.kind = "error", !.error = e]
  IN  IF found = {} THEN Raise(TypeError("status"))
      ELSE IF pledge.status = "SUCCESSFUL" THEN Raise(ReferenceError("t"))
      ELSE IF caller = NoUser THEN Raise(TypeError("id"))
      ELSE IF caller.id = owner.id \/ ~owner.verified
           THEN [NoOut EXCEPT !.kind = "pledge", !.pledgeId = pledge.id,
                              !.userId = pledge.userId]
           ELSE Raise(ReferenceError("t"))

\* one draftPledge query, from its two reads to its return or throw; it
\* writes nothing
DraftPledge(p) ==
  /\ pc[p] = "idle"
  /\ \E id \in { g.id : g \in pledges } \cup { MissingPledgeId },
        caller \in { NoUser } \cup users :
       /\ req' = [req EXCEPT ![p] = [NoRequest EXCEPT !.user = caller, !.id = id]]
       /\ out' = [out EXCEPT ![p] = DraftPledgeOutcome(Store, id, caller)]
  /\ pc' = [pc EXCEPT ![p] = "done"]
  /\ before' = [before EXCEPT ![p] = Store]
  /\ UNCHANGED << users, pledges, pledgeOptions, paymentSources, tx, local >>

\* the stores the query is asked on: the seeded user and a user created by a
\* submission, each verified or not, each with one pledge that is DRAFT or has
\* been paid
InitDraft ==
  /\ \E v1, v2 \in BOOLEAN, s1, s2 \in PledgeStatuses :
       /\ users = { [SeedUser EXCEPT !.firstName = "Ann", !.lastName = "Lee", !.verified = v1],
                    [id |-> 2, email |-> "new@r", firstName |-> "Ann", lastName |-> "Lee",
                     birthday |-> "1990", verified |-> v2] }
       /\ pledges = { [id |-> 1, userId |-> 1, packageId |-> 2, total |-> 100,
                       donation |-> 0, reason |-> "student", status |-> s1],
                      [id |-> 2, userId |-> 2, packageId |-> 1, total |-> 100,
                       donation |-> -100, reason |-> "student", status |-> s2] }
  /\ pledgeOptions = { [pledgeId |-> 1, templateId |-> 3, amount |-> 1, price |-> 100],
                       [pledgeId |-> 2, templateId |-> 1, amount |-> 1, price |-> 100] }
  /\ paymentSources = { [userId |-> 1, method |-> "POSTFINANCECARD", pspId |-> 1] }
  /\ pc = [p \in Procs |-> "idle"]
  /\ req = [p \in Procs |-> NoRequest]
  /\ tx = [p \in Procs |-> NoTx]
  /\ local = [p \in Procs |-> NoLocal]
  /\ out = [p \in Procs |-> NoOut]
  /\ before = [p \in Procs |-> [users |-> {}, pledges |-> {}, pledgeOptions |-> {},
                                paymentSources |-> {}]]

NextDraft == \E p \in Procs : DraftPledge(p) \/ Return(p)

SpecDraft == InitDraft /\ [][NextDraft]_vars

(* ------------------------- the claims' vocabulary ---------------------- *)

Generic == JsError(t("api/unexpected"))
AlreadyHas == JsError(t("api/membership/reduced/alreadyHas"))

TemplateExists(id) == \E pko \in PackageOptionRows : pko.id = id
AllTemplatesExist(plos) == \A i \in 1..Len(plos) : TemplateExists(plos[i].templateId)

Started(p) == pc[p] # "idle"
Returned(p) == pc[p] = "done"
\* the submission threw: it is in the catch clause or has re-thrown
Failed(p) == pc[p] \in {"catch", "done"} /\ out[p].kind \in {"thrown", "error"}
Succeeded(p) == pc[p] = "done" /\ out[p].kind = "result"
StoreAsBefore(p) == Store = before[p]
NoPledgeCommitted(p) ==
  /\ tx[p].status # "committed"
  /\ pledges = before[p].pledges
  /\ pledgeOptions = before[p].pledgeOptions

\* some option's amount lies outside [minAmount, maxAmount] of its template
AmountOutOfRange(plos) ==
  \E i \in 1..Len(plos) : \E pko \in PackageOptionRows :
    /\ pko.id = plos[i].templateId
    /\ (plos[i].amount < pko.minAmount \/ plos[i].amount > pko.maxAmount)

\* the options name existing templates of two or more packages
CrossPackage(plos) ==
  \E i, j \in 1..Len(plos) : \E a, b \in PackageOptionRows :
    a.id = plos[i].templateId /\ b.id = plos[j].templateId /\ a.packageId # b.packageId

(* ------------------------------- C1 ------------------------------------ *)

\* C1 (as claimed): a submission with an option whose amount is below its
\* template's minAmount or above its maxAmount fails and commits no pledge,
\* and the range check accepts minAmount and maxAmount themselves.
C1_AmountRangeEnforced ==
  /\ \A p \in Procs :
       Started(p) /\ AmountOutOfRange(req[p].pledge.options)
         => Failed(p) /\ NoPledgeCommitted(p)
  /\ \A pko \in PackageOptionRows :
       AmountAccepted(pko, pko.minAmount) /\ AmountAccepted(pko, pko.maxAmount)

(* ------------------------------- C3 ------------------------------------ *)

\* C3 (as claimed): no submission returns to its caller while the transaction
\* it began is still open: it has committed or rolled back.
C3_TransactionEndedAtReturn ==
  \A p \in Procs : Returned(p) => tx[p].status \in {"committed", "rolledback"}

(* ------------------------------- C5 ------------------------------------ *)

\* C5: a submission whose options name existing templates of two or more
\* packages throws the generic error and commits nothing, whatever the amounts,
\* prices, total and order of the options.
C5_CrossPackageFails ==
  \A p \in Procs :
    Started(p) /\ CrossPackage(req[p].pledge.options)
      => /\ Failed(p)
         /\ out[p].error = Generic
         /\ NoPledgeCommitted(p)
         /\ tx[p].pledges = {}

\* a returned submission of two existing templates of different packages, the
\* template of the other package named first
C5_Witness ==
  \E p \in Procs :
    /\ Returned(p) /\ out[p].kind = "error"
    /\ Len(req[p].pledge.options) = 2
    /\ req[p].pledge.options[1].templateId = 3
    /\ req[p].pledge.options[2].templateId = 1
    /\ tx[p].status = "rolledback"

(* ------------------------------- C6 ------------------------------------ *)

\* C6: a submission whose donation is negative and whose reason is absent or
\* empty fails, and every committed Pledge with donation < 0 has a non-empty
\* reason.
C6_ReducedNeedsReason ==
  /\ \A p \in Procs :
       /\ Started(p)
       /\ AllTemplatesExist(req[p].pledge.options)
       /\ req[p].pledge.total - RegularTotal(req[p].pledge.options) < 0
       /\ req[p].pledge.reason \in {Null, ""}
       => Failed(p) /\ NoPledgeCommitted(p)
  /\ \A g \in pledges : g.donation < 0 => g.reason \notin {Null, ""}

\* a reduced submission with an empty reason has failed, and the store holds a
\* reduced pledge (with its reason) from an earlier submission
C6_Witness ==
  \E p \in Procs :
    /\ Returned(p) /\ out[p].kind = "error"
    /\ ~TemplatesMissing(req[p].pledge.options)
    /\ req[p].pledge.options # << >>
    /\ req[p].pledge.total >= MinTotal(req[p].pledge.options)
    /\ req[p].pledge.total < RegularTotal(req[p].pledge.options)
    /\ ~CrossPackage(req[p].pledge.options)
    /\ req[p].pledge.reason = ""
    /\ \E g \in pledges : g.donation < 0

(* ------------------------------- C2 ------------------------------------ *)

\* C2: when a submission that threw before its transaction committed leaves
\* the catch clause, the transaction is rolled back with nothing of its write
\* set left, the tables are what they were when the submission began (no User,
\* Pledge or PledgeOption row of it is visible), and the error the caller gets
\* is the one that was thrown.
C2_FailureLeavesNoWrites ==
  [][ \A p \in Procs :
        pc[p] = "catch" /\ pc'[p] = "done" /\ tx[p].status = "open"
          => /\ out'[p].kind = "error"
             /\ out[p].error # NoError
             /\ out'[p].error = out[p].error
             /\ tx'[p] = [NoTx EXCEPT !.status = "rolledback"]
             /\ users' = before[p].users
             /\ pledges' = before[p].pledges
             /\ pledgeOptions' = before[p].pledgeOptions
             /\ paymentSources' = before[p].paymentSources ]_vars

\* a submission that inserted a User row and a Pledge row and then failed at
\* the options' insert has returned its error; neither row is in the tables
C2_Witness ==
  \E p \in Procs :
    /\ Returned(p) /\ out[p].kind = "error"
    /\ out[p].error = StoreError("pledgeOptions.insertAndGet")
    /\ tx[p].status = "rolledback"
    /\ local[p].user.id # NoId /\ local[p].newPledge.id # NoId
    /\ \A u \in users : u.id # local[p].user.id
    /\ \A g \in pledges : g.id # local[p].newPledge.id

(* ----------------------- identity and eligibility ---------------------- *)

\* the pricing checks of lines 12-70 let the request through
PassesPricing(pledge) == \E o \in ValidationOutcomes(pledge) : o.error = NoError

HasSession(p) == req[p].user # NoUser
\* a session user submits under the session's own email
EmailMatchesSession(p) == HasSession(p) => req[p].user.email = req[p].pledge.user.email

\* the users the submission is made for, as the store knew them when it began:
\* the session user, else the users with the submitted email
ForUsers(p) ==
  IF HasSession(p) THEN { req[p].user.id }
  ELSE { u.id : u \in { v \in before[p].users : v.email = req[p].pledge.user.email } }

OwnsPledge(store, userId) == \E g \in store.pledges : g.userId = userId

\* a pledge of the user has an option whose template's reward exists
HoldsRewardPledge(store, userId) ==
  \E g \in store.pledges, o \in store.pledgeOptions :
    /\ g.userId = userId /\ o.pledgeId = g.id
    /\ \E pko \in PackageOptionRows, r \in RewardRows :
         pko.id = o.templateId /\ r.id = pko.rewardId

\* the store or the signature function failed
InfrastructureFailed(p) == out[p].error.type \in {"StoreError", "SignatureError"}

ReducedWithReason(p) ==
  /\ PassesPricing(req[p].pledge)
  /\ req[p].pledge.total - RegularTotal(req[p].pledge.options) < 0
  /\ req[p].pledge.reason \notin {Null, ""}

\* the result names a Pledge row of the tables that the submission created
CommittedNewPledge(p) ==
  /\ Succeeded(p)
  /\ out[p].pledgeId # NoId /\ out[p].userId # NoId /\ out[p].pfAliasId # NoId
  /\ out[p].pfSHA # NoSHA
  /\ \E g \in pledges \ before[p].pledges :
       g.id = out[p].pledgeId /\ g.userId = out[p].userId

(* ------------------------------- C4 ------------------------------------ *)

\* C4 (as claimed): a returned submission without session identity, under the
\* email of a User who owned a pledge when it began, returned
\* {emailVerify: true} and left the tables as they were.
C4_OwnedEmailAsksVerification ==
  \A p \in Procs :
    /\ Returned(p) /\ ~HasSession(p)
    /\ \E id \in ForUsers(p) : OwnsPledge(before[p], id)
    => out[p].kind = "emailVerify" /\ StoreAsBefore(p)

\* C4 (amended): the same of the submissions that pass the pricing checks; the
\* others throw their pricing error before the user is looked up.  No row is
\* written either way.
C4_OwnedEmailAsksVerificationAfterPricing ==
  \A p \in Procs :
    /\ Returned(p) /\ ~HasSession(p)
    /\ \E id \in ForUsers(p) : OwnsPledge(before[p], id)
    => /\ StoreAsBefore(p)
       /\ tx[p].users = {} /\ tx[p].pledges = {} /\ tx[p].pledgeOptions = {}
       /\ IF PassesPricing(req[p].pledge)
          THEN out[p].kind = "emailVerify"
          ELSE out[p].kind = "error"

C4_Witness ==
  \E p \in Procs :
    /\ Returned(p) /\ ~HasSession(p)
    /\ out[p].kind = "emailVerify"
    /\ \E id \in ForUsers(p) : OwnsPledge(Store, id)

(* ------------------------------- C7 ------------------------------------ *)

\* C7 (as claimed): a reduced submission that passes the pricing checks with a
\* reason, for a user without a reward-bearing pledge, commits a new Pledge and
\* returns its ids, signature and alias, with or without a session (the store
\* and the signature function working).
C7_ReducedWithReasonSucceeds ==
  \A p \in Procs :
    /\ Returned(p) /\ ReducedWithReason(p) /\ EmailMatchesSession(p)
    /\ \A id \in ForUsers(p) : ~HoldsRewardPledge(before[p], id)
    /\ ~InfrastructureFailed(p)
    => CommittedNewPledge(p)

\* C7 (amended): it does so when the submitter is the session user, or has no
\* session and the submitted email belongs to no User or to one without any
\* pledge; without a session, under the email of a User who owns a pledge, it
\* returns {emailVerify: true} and commits nothing.
C7_ReducedWithReasonSucceedsUnlessOwnedEmail ==
  \A p \in Procs :
    /\ Returned(p) /\ ReducedWithReason(p) /\ EmailMatchesSession(p)
    /\ \A id \in ForUsers(p) : ~HoldsRewardPledge(before[p], id)
    /\ ~InfrastructureFailed(p)
    => IF HasSession(p) \/ \A id \in ForUsers(p) : ~OwnsPledge(before[p], id)
       THEN CommittedNewPledge(p)
       ELSE out[p].kind = "emailVerify" /\ NoPledgeCommitted(p)

\* a session user who owns a pledge without reward has got a reduced pledge
C7_Witness ==
  \E p \in Procs :
    /\ CommittedNewPledge(p) /\ ReducedWithReason(p) /\ HasSession(p)
    /\ OwnsPledge(before[p], req[p].user.id)
    /\ ~HoldsRewardPledge(before[p], req[p].user.id)

(* ------------------------------- C8 ------------------------------------ *)

\* C8 (as claimed): a reduced submission for a user who holds a reward-bearing
\* pledge fails with the alreadyHas error and commits no pledge, with or
\* without a session.
C8_SecondReducedRefused ==
  \A p \in Procs :
    /\ Returned(p) /\ ReducedWithReason(p) /\ EmailMatchesSession(p)
    /\ \E id \in ForUsers(p) : HoldsRewardPledge(before[p], id)
    /\ ~InfrastructureFailed(p)
    => /\ out[p].kind = "error" /\ out[p].error = AlreadyHas
       /\ NoPledgeCommitted(p)

\* C8 (amended): with the session of that user it fails with the alreadyHas
\* error; without a session, under that user's email, it returns
\* {emailVerify: true}; no pledge is committed either way.
C8_SecondReducedRefusedOrVerification ==
  \A p \in Procs :
    /\ Returned(p) /\ ReducedWithReason(p) /\ EmailMatchesSession(p)
    /\ \E id \in ForUsers(p) : HoldsRewardPledge(before[p], id)
    /\ ~InfrastructureFailed(p)
    => /\ NoPledgeCommitted(p)
       /\ IF HasSession(p)
          THEN out[p].kind = "error" /\ out[p].error = AlreadyHas
          ELSE out[p].kind = "emailVerify"

C8_Witness ==
  \E p \in Procs :
    /\ Returned(p) /\ ReducedWithReason(p) /\ HasSession(p)
    /\ HoldsRewardPledge(before[p], req[p].user.id)
    /\ out[p].error = AlreadyHas
    /\ tx[p].status = "rolledback"

(* ------------------------------- C9 ------------------------------------ *)

TemplateOf(row) == CHOOSE pko \in PackageOptionRows : pko.id = row.templateId

\* the sum over PledgeOption rows of amount * (userPrice ? minUserPrice : price)
RECURSIVE RowsMinSum(_)
RowsMinSum(rows) ==
  IF rows = {} THEN 0
  ELSE LET o == CHOOSE x \in rows : TRUE
           pko == TemplateOf(o)
       IN  o.amount * (IF pko.userPrice THEN pko.minUserPrice ELSE pko.price)
             + RowsMinSum(rows \ { o })

\* the sum over PledgeOption rows of amount * price of the template
RECURSIVE RowsRegularSum(_)
RowsRegularSum(rows) ==
  IF rows = {} THEN 0
  ELSE LET o == CHOOSE x \in rows : TRUE
       IN  o.amount * TemplateOf(o).price + RowsRegularSum(rows \ { o })

OptionsOfPledge(g) == { o \in pledgeOptions : o.pledgeId = g.id }

\* C9: every committed Pledge has total >= max(100, the minimum sum of its
\* options) and donation = total - max(100, the regular sum of its options),
\* and the row a submission committed holds the total submitted and the
\* donation computed by the pricing checks.
C9_StoredTotalsAsValidated ==
  /\ \A g \in pledges :
       /\ \A o \in OptionsOfPledge(g) : TemplateExists(o.templateId)
       /\ g.total >= Max(RowsMinSum(OptionsOfPledge(g)), 100)
       /\ g.donation = g.total - Max(RowsRegularSum(OptionsOfPledge(g)), 100)
  /\ \A p \in Procs :
       tx[p].status = "committed"
         => \E g \in pledges :
              /\ g.id = local[p].newPledge.id
              /\ g.total = req[p].pledge.total
              /\ g.donation = local[p].donation
              /\ Len(req[p].pledge.options) = Cardinality(OptionsOfPledge(g))
              /\ \A i \in 1..Len(req[p].pledge.options) :
                   \E o \in OptionsOfPledge(g) :
                     /\ o.templateId = req[p].pledge.options[i].templateId
                     /\ o.amount = req[p].pledge.options[i].amount

\* a committed pledge of two options under the floor's and the user price's
\* reach: a reduced one, and one whose regular sum lies below the floor
C9_Witness ==
  /\ \E g \in pledges : Cardinality(OptionsOfPledge(g)) = 2 /\ g.donation < 0
  /\ \E g \in pledges : RowsRegularSum(OptionsOfPledge(g)) < 100 /\ g.donation = 0
  /\ \E p \in Procs : Succeeded(p)

(* ------------------------------- C10 ----------------------------------- *)

\* the request's total lies below minTotal, the template, package and amount
\* checks passed
TotalBelowMinimum(pledge) ==
  /\ pledge.options # << >>
  /\ ~TemplatesMissing(pledge.options)
  /\ ~CrossPackage(pledge.options)
  /\ \A i \in 1..Len(pledge.options) :
       AmountAccepted(Pko(pledge.options[i]), pledge.options[i].amount)
  /\ pledge.total < Max(SumMin(pledge.options), 100)

\* C10 (as claimed): every error thrown before a user is resolved, by the
\* template, package, amount, total and reason checks and by the identity
\* check, is the generic error; a submission with total < minTotal throws it.
C10_ValidationFailuresGeneric ==
  \A p \in Procs :
    /\ (/\ Failed(p) /\ local[p].user = NoUser
        /\ req[p].pledge.options # << >>
        /\ out[p].error.type # "StoreError"
        => out[p].error = Generic)
    /\ (Started(p) /\ TotalBelowMinimum(req[p].pledge)
        => Failed(p) /\ out[p].error = Generic)

(* ------------------------------- C11 ----------------------------------- *)

\* the rows a committed submission put into the tables: its Pledge row, still
\* DRAFT, and one PledgeOption row per submitted option
CommittedRowsRemain(p) ==
  /\ \E g \in pledges :
       /\ g.id = local[p].newPledge.id /\ g.status = "DRAFT"
       /\ g.total = req[p].pledge.total
  /\ \A i \in 1..Len(req[p].pledge.options) :
       \E o \in pledgeOptions :
         /\ o.pledgeId = local[p].newPledge.id
         /\ o.templateId = req[p].pledge.options[i].templateId
         /\ o.amount = req[p].pledge.options[i].amount

\* C11: the payment signature is computed only after transactionCommit has
\* completed (a submission at the signing step, and one that holds a
\* signature, has a committed transaction and its rows in the tables); a
\* submission whose signing failed keeps its DRAFT Pledge and PledgeOption
\* rows in the tables through the catch clause, and the caller gets the
\* signature error.
C11_SignatureAfterCommit ==
  \A p \in Procs :
    /\ (pc[p] = "sign" \/ out[p].pfSHA # NoSHA
        => tx[p].status = "committed" /\ CommittedRowsRemain(p))
    /\ (out[p].pfSHA # NoSHA
        => out[p].pfSHA.orderId = local[p].newPledge.id)
    /\ (pc[p] = "catch" /\ out[p].error = SignatureError
        => tx[p].status = "committed" /\ CommittedRowsRemain(p))
    /\ (Returned(p) /\ tx[p].status = "committed" /\ out[p].kind # "result"
        => /\ out[p].kind = "error"
           /\ out[p].error = SignatureError
           /\ out[p].pfSHA = NoSHA
           /\ CommittedRowsRemain(p))

\* the signing of a committed pledge failed, the catch clause has run, and the
\* pledge with its options is in the tables
C11_Witness ==
  \E p \in Procs :
    /\ Returned(p) /\ out[p].kind = "error" /\ out[p].error = SignatureError
    /\ tx[p].status = "committed"
    /\ \E g \in pledges \ before[p].pledges : g.id = local[p].newPledge.id
    /\ \E o \in pledgeOptions \ before[p].pledgeOptions :
         o.pledgeId = local[p].newPledge.id

(* ------------------------------- C12 ----------------------------------- *)

\* C12: every PledgeOption row of the tables references a Pledge row of the
\* tables; every PledgeOption row of a running transaction references a Pledge
\* row that the same open transaction inserted before it; and every Pledge row,
\* committed or just inserted, has status DRAFT.
C12_OptionsReferencePledge ==
  /\ \A o \in pledgeOptions : \E g \in pledges : g.id = o.pledgeId
  /\ \A p \in Procs :
       /\ \A o \in tx[p].pledgeOptions :
            /\ tx[p].status = "open"
            /\ \E g \in tx[p].pledges : g.id = o.pledgeId
       /\ \A g \in pledges \cup tx[p].pledges : g.status = "DRAFT"

\* a submission has inserted its Pledge and PledgeOption rows and is about to
\* commit, while the tables hold the rows of an earlier submission
C12_Witness ==
  \E p \in Procs :
    /\ pc[p] = "commit"
    /\ tx[p].pledges # {} /\ tx[p].pledgeOptions # {}
    /\ pledges # {} /\ pledgeOptions # {}

(* ------------------------------- C13 ----------------------------------- *)

\* C13: a submission with a session identity whose email differs from the
\* submitted email never gets past the identity check: it fails, writes no User
\* and no Pledge row, not even in its transaction, and the tables stay as
\* they were.  When the emails are equal, the Pledge a submission commits
\* carries the session user's id.
C13_SessionIdentity ==
  \A p \in Procs :
    Started(p) /\ HasSession(p) =>
      IF req[p].user.email # req[p].pledge.user.email
      THEN /\ pc[p] \in {"resolveUser", "catch", "done"}
           /\ (pc[p] # "resolveUser" => Failed(p))
           /\ tx[p].users = {} /\ tx[p].pledges = {}
           /\ tx[p].status # "committed"
           /\ users = before[p].users /\ pledges = before[p].pledges
      ELSE tx[p].status = "committed" =>
             /\ \E g \in pledges \ before[p].pledges : g.id = local[p].newPledge.id
             /\ \A g \in pledges \ before[p].pledges : g.userId = req[p].user.id

\* a session user's well-priced submission under another email has failed with
\* the generic error
C13_Witness ==
  \E p \in Procs :
    /\ Returned(p) /\ HasSession(p)
    /\ req[p].user.email # req[p].pledge.user.email
    /\ PassesPricing(req[p].pledge)
    /\ out[p].kind = "error" /\ out[p].error = Generic
    /\ tx[p].status = "rolledback"

(* ------------------------------- C14 ----------------------------------- *)

\* C14 (as claimed): the template check rejects a submission exactly when
\* fewer catalog rows are found than distinct template ids were requested: a
\* submission naming a template that is not in the catalog fails with the
\* generic error, and the check lets through every submission whose template
\* ids all exist, two options of the same existing template included.
C14_TemplateCheckByDistinctIds ==
  \A p \in Procs :
    Started(p) =>
      LET plos == req[p].pledge.options
          ids == { plos[i].templateId : i \in 1..Len(plos) }
          found == { pko \in PackageOptionRows : pko.id \in ids }
      IN  /\ (Cardinality(found) < Cardinality(ids)
              => Failed(p) /\ out[p].error = Generic /\ NoPledgeCommitted(p))
          /\ (TemplatesMissing(plos) <=> Cardinality(found) < Cardinality(ids))

(* ------------------------------- C15 ----------------------------------- *)

\* the stored aliases of the user's card payment sources
StoredAliases(userId) ==
  { s.pspId : s \in { r \in paymentSources :
                        r.userId = userId /\ r.method = "POSTFINANCECARD" } }

\* C15: a successful submission of a session user who has a card payment
\* source returns that source's alias; every other successful submission
\* returns an alias that no stored payment source has; the signature is made
\* with the alias returned; and no submission adds, removes or changes a
\* PaymentSource row.
C15_AliasReusedOrFresh ==
  \A p \in Procs :
    /\ (Started(p) => paymentSources = before[p].paymentSources)
    /\ (Succeeded(p) =>
          /\ out[p].pfAliasId # NoId
          /\ out[p].pfSHA.alias = out[p].pfAliasId
          /\ IF HasSession(p) /\ StoredAliases(req[p].user.id) # {}
             THEN out[p].pfAliasId \in StoredAliases(req[p].user.id)
             ELSE out[p].pfAliasId \notin { s.pspId : s \in paymentSources })

\* both cases in one state is not possible with one handler; the witness is a
\* session user without a payment source, who pledged before, getting a fresh
\* alias while another user's alias is stored
C15_Witness ==
  \E p \in Procs :
    /\ Succeeded(p) /\ HasSession(p)
    /\ StoredAliases(req[p].user.id) = {}
    /\ paymentSources # {}
    /\ out[p].pfAliasId \notin { s.pspId : s \in paymentSources }

\* a session user with a payment source got the stored alias back
C15_WitnessStored ==
  \E p \in Procs :
    /\ Succeeded(p) /\ HasSession(p)
    /\ out[p].pfAliasId \in StoredAliases(req[p].user.id)

(* ------------------------------- C19 ----------------------------------- *)

\* C19: every Pledge row of the tables has at least one PledgeOption row, and
\* each of its PledgeOption rows names a catalog template of the pledge's
\* package; a submission with an empty options list fails without inserting
\* a Pledge row and commits nothing.
C19_PledgeHasOptionsOfItsPackage ==
  /\ \A g \in pledges :
       /\ OptionsOfPledge(g) # {}
       /\ \A o \in OptionsOfPledge(g) :
            \E pko \in PackageOptionRows :
              pko.id = o.templateId /\ pko.packageId = g.packageId
  /\ \A p \in Procs :
       Started(p) /\ req[p].pledge.options = << >>
         => Failed(p) /\ tx[p].pledges = {} /\ NoPledgeCommitted(p)

\* a submission with no options has failed at packageOptions[0], and the
\* tables hold a pledge of package 2 from an earlier submission
C19_Witness ==
  \E p \in Procs :
    /\ Returned(p) /\ req[p].pledge.options = << >>
    /\ out[p].kind = "error" /\ out[p].error = TypeError("packageId")
    /\ \E g \in pledges : g.packageId = 2

(* ------------------------------- C17 ----------------------------------- *)

\* the options of a request, as the PledgeOption rows' contents
RequestedOptions(p) ==
  { [templateId |-> req[p].pledge.options[i].templateId,
     amount |-> req[p].pledge.options[i].amount,
     price |-> req[p].pledge.options[i].price] : i \in 1..Len(req[p].pledge.options) }

\* g is what an earlier submission of p's request committed: a Pledge of the
\* user the request is made for, with the request's total, reason and options
SameAsRequest(p, g) ==
  /\ g.userId \in ForUsers(p)
  /\ g.total = req[p].pledge.total /\ g.reason = req[p].pledge.reason
  /\ { [templateId |-> o.templateId, amount |-> o.amount, price |-> o.price] :
         o \in { x \in before[p].pledgeOptions : x.pledgeId = g.id } }
       = RequestedOptions(p)

\* p's request is valid and a submission of it had committed when p began
Resubmission(p) ==
  /\ PassesPricing(req[p].pledge) /\ EmailMatchesSession(p)
  /\ \E g \in before[p].pledges : SameAsRequest(p, g)

\* the submission committed one more Pledge row, with an id no earlier row has
CommittedSecondPledge(p) ==
  /\ CommittedNewPledge(p)
  /\ \A g \in before[p].pledges : g.id # out[p].pledgeId
  /\ Cardinality(pledges) = Cardinality(before[p].pledges) + 1

\* C17 (as claimed): a resubmission of a valid request whose first submission
\* committed commits a second, distinct Pledge row, with or without a session
\* identity (store and signature failures aside).
C17_ResubmissionCommitsAgain ==
  \A p \in Procs :
    Returned(p) /\ Resubmission(p) /\ ~InfrastructureFailed(p)
      => CommittedSecondPledge(p)

\* C17 (amended): such a resubmission commits a second, distinct Pledge row
\* when it has a session identity and is not a reduced pledge of a user who
\* holds a reward; a reduced one of such a user fails with alreadyHas; and
\* one without a session identity returns {emailVerify: true}.  The last two
\* leave the tables as they were.
C17_ResubmissionCommitsAgainWithSession ==
  \A p \in Procs :
    Returned(p) /\ Resubmission(p) /\ ~InfrastructureFailed(p) =>
      IF ~HasSession(p)
      THEN out[p].kind = "emailVerify" /\ StoreAsBefore(p)
      ELSE IF /\ req[p].pledge.total - RegularTotal(req[p].pledge.options) < 0
              /\ HoldsRewardPledge(before[p], req[p].user.id)
      THEN out[p].kind = "error" /\ out[p].error = AlreadyHas /\ StoreAsBefore(p)
      ELSE CommittedSecondPledge(p)

\* a session user's resubmission has committed a second pledge like the first
C17_Witness ==
  \E p \in Procs :
    /\ Returned(p) /\ Resubmission(p) /\ HasSession(p)
    /\ CommittedSecondPledge(p)
    /\ \E g, h \in pledges :
         /\ g.id # h.id /\ g.userId = h.userId /\ g.total = h.total
         /\ g.packageId = h.packageId

\* the resubmission of an unauthenticated caller was answered with emailVerify
C17_WitnessUnauthenticated ==
  \E p \in Procs :
    /\ Returned(p) /\ Resubmission(p) /\ ~HasSession(p)
    /\ out[p].kind = "emailVerify"

(* ------------------------------- C16 ----------------------------------- *)

\* the reduced (donation < 0) Pledge rows of a user
ReducedPledges(rows, userId) == { g \in rows : g.userId = userId /\ g.donation < 0 }

\* C16 (as claimed): whenever a submission commits, under any interleaving,
\* its user has at most one reduced pledge in the tables afterwards, and if the
\* pledge it commits is reduced, the user held no reward-bearing pledge in the
\* tables before the commit.
C16_OneReducedPledgePerUser ==
  [][ \A p \in Procs :
        pc[p] = "commit" /\ pc'[p] = "sign"
          => /\ Cardinality(ReducedPledges(pledges', local[p].user.id)) <= 1
             /\ (local[p].donation < 0
                 => ~HoldsRewardPledge(Store, local[p].user.id)) ]_vars

(* ------------------------------- C18 ----------------------------------- *)

\* C18 (as claimed): under any interleaving no two User rows of the tables
\* have the same email; a transaction inserts a User row only for a submission
\* without session identity; and a submission without session identity that
\* has settled on a user whose email was in the tables when it began has
\* adopted a row of the tables and inserted none.
C18_UserEmailsDistinct ==
  /\ \A u, v \in users : u.email = v.email => u.id = v.id
  /\ \A p \in Procs :
       /\ (\E w \in tx[p].users : \A u \in users : u.id # w.id) => ~HasSession(p)
       /\ (/\ Started(p) /\ ~HasSession(p) /\ local[p].user # NoUser
           /\ \E u \in before[p].users : u.email = req[p].pledge.user.email)
          => /\ \E u \in before[p].users : u.id = local[p].user.id
             /\ \A w \in tx[p].users : \E u \in before[p].users : u.id = w.id

\* the tables as an earlier submission under the seeded user's email left them
ReachedStoreAfterFirstPledge ==
  Store = StoreAfterFirstPledge /\ \A p \in Procs : pc[p] = "idle"

(* ------------------------------- C20 ----------------------------------- *)

\* the row the query's id names, if any, is not SUCCESSFUL, and the caller is
\* its owner or its owner is not verified; a caller who is not logged in is
\* nobody's owner
MayLoadDraft(store, id, caller) ==
  \E g \in store.pledges, u \in store.users :
    /\ g.id = id /\ u.id = g.userId
    /\ g.status # "SUCCESSFUL"
    /\ ((caller # NoUser /\ caller.id = u.id) \/ ~u.verified)

\* C20 (as claimed): a draftPledge query returns the pledge exactly when the
\* pledge is not SUCCESSFUL and the caller is its owner or its owner is
\* unverified, a caller who is not logged in included; every other query
\* raises an error and returns no pledge.
C20_DraftPledgeAccess ==
  \A p \in Procs :
    Returned(p) /\ req[p].id # NoId =>
      IF MayLoadDraft(before[p], req[p].id, req[p].user)
      THEN out[p].kind = "pledge" /\ out[p].pledgeId = req[p].id
      ELSE out[p].kind = "error" /\ out[p].pledgeId = NoId

====
